---- MODULE Spec2Model ----
(***************************************************************************)
(* A model of pegger.py: a backtracking PEG matcher.                       *)
(*                                                                         *)
(* Python text is a sequence of one-character strings.  A Python value     *)
(* appearing in a match (a str or a list) is a record [t, v]: t = "str"    *)
(* with v the characters, or t = "list" with v the elements.  A matcher    *)
(* outcome is a record [kind, match, rest]; kind is "ok" for a returned    *)
(* (match, rest) pair, the name of the exception raised, or "hang" when    *)
(* the call never returns.                                                 *)
(***************************************************************************)
EXTENDS Integers, Sequences, FiniteSets, TLC

VARIABLES text, pattern, pc, outcome, rest, result, idx, match_made

vars == <<text, pattern, pc, outcome, rest, result, idx, match_made>>

(* ---------------------------- bounds ----------------------------------- *)

\* longest input text over {a, b}
MaxLen == 3

\* longest input text over {newline, space, a} given to Indented
MaxIndentLen == 5

\* longest input text of the runs checked for termination
MaxLoopLen == 2

\* the stepped Many loop keeps the first MaxResult elements of its list;
\* only a loop that never ends accumulates that many
MaxResult == 10

(* ------------------------- Python values ------------------------------- *)

Str(s) == [t |-> "str", v |-> s]

Lst(xs) == [t |-> "list", v |-> xs]

\* the name carried by an anonymous pattern
NoName == Str(<<>>)

\* the __name__ of a lambda
LambdaName == Str(<<"<", "l", "a", "m", "b", "d", "a", ">">>)

\* Python truthiness of a str or a list
Truthy(x) == Len(x.v) > 0

\* x[i] is defined (0-based)
HasItem(x, i) == i < Len(x.v)

\* x[i] (0-based); indexing a str gives a one-character str
Item(x, i) == IF x.t = "str" THEN Str(<<x.v[i + 1]>>) ELSE x.v[i + 1]

\* [name, value]
Pair(name, value) == Lst(<<name, value>>)

Ok(m, r) == [kind |-> "ok", match |-> m, rest |-> r]

Raise(k) == [kind |-> k, match |-> Lst(<<>>), rest |-> <<>>]

(* ------------------------- string helpers ------------------------------ *)

StartsWith(s, p) == Len(p) <= Len(s) /\ SubSeq(s, 1, Len(p)) = p

Min(m, n) == IF m < n THEN m ELSE n

\* s[n:]
Drop(s, n) == SubSeq(s, n + 1, Len(s))

\* length of the longest prefix of s whose characters all satisfy "in cs"
RECURSIVE RunLen(_, _)
RunLen(s, cs) ==
    IF s # <<>> /\ s[1] \in cs THEN 1 + RunLen(Tail(s), cs) ELSE 0

\* the characters of a str as a set
Chars(s) == {s[i] : i \in 1..Len(s)}

\* s.split("\n")
RECURSIVE Split(_)
Split(s) ==
    LET n == RunLen(s, Chars(s) \ {"\n"})
    IN  IF n = Len(s) THEN <<s>>
        ELSE <<SubSeq(s, 1, n)>> \o Split(Drop(s, n + 1))

\* "\n".join(lines)
RECURSIVE Join(_)
Join(lines) ==
    IF lines = <<>> THEN <<>>
    ELSE IF Len(lines) = 1 THEN lines[1]
    ELSE lines[1] \o <<"\n">> \o Join(Tail(lines))

(* --------------------------- patterns ---------------------------------- *)
(* A pattern is a record [type, arg, subs, name]: type is the Python type  *)
(* of the object, arg its string parameter, subs its sub-patterns and      *)
(* name the __name__ of a function.                                        *)

Pat(ty, a, ss) == [type |-> ty, arg |-> a, subs |-> ss, name |-> <<>>]

Literal(s) == Pat("str", s, <<>>)

Tuple(ss) == Pat("tuple", <<>>, ss)

Some(c) == Pat("Some", c, <<>>)

Ignore(p) == Pat("Ignore", <<>>, <<p>>)

Not(s) == Pat("Not", s, <<>>)

OneOf(ss) == Pat("OneOf", <<>>, ss)

Many(ss) == Pat("Many", <<>>, ss)

Optional(p) == Pat("Optional", <<>>, <<p>>)

Indented(p) == Pat("Indented", <<>>, <<p>>)

\* a zero-argument function named n that returns p
Function(n, p) == [type |-> "function", arg |-> <<>>, subs |-> <<p>>, name |-> n]

string_uppercase ==
    {"A", "B", "C", "D", "E", "F", "G", "H", "I", "J", "K", "L", "M",
     "N", "O", "P", "Q", "R", "S", "T", "U", "V", "W", "X", "Y", "Z"}

string_lowercase ==
    {"a", "b", "c", "d", "e", "f", "g", "h", "i", "j", "k", "l", "m",
     "n", "o", "p", "q", "r", "s", "t", "u", "v", "w", "x", "y", "z"}

\* Words.letters, as a set of characters
DefaultLetters == string_uppercase \cup string_lowercase \cup {" ", ".", ","}

\* Words(letters): an empty or missing argument keeps the class default
Words(s) == Pat("Words", s, <<>>)

WordsLetters(p) == IF p.arg # <<>> THEN Chars(p.arg) ELSE DefaultLetters

(* --------------------------- matchers ---------------------------------- *)

match_some(txt, p, name) ==
    LET n == IF Len(p.arg) = 1 THEN RunLen(txt, {p.arg[1]}) ELSE 0
    IN  IF n = 0 THEN Raise("NoPatternFound")
        ELSE Ok(Pair(name, Str(SubSeq(txt, 1, n))), Drop(txt, n))

match_words(txt, p, name) ==
    LET n == RunLen(txt, WordsLetters(p))
    IN  IF n = 0 THEN Raise("NoPatternFound")
        ELSE Ok(Pair(name, Str(SubSeq(txt, 1, n))), Drop(txt, n))

match_text(txt, p, name) ==
    IF StartsWith(txt, p.arg)
    THEN Ok(Pair(name, Str(p.arg)), Drop(txt, Len(p.arg)))
    ELSE Raise("NoPatternFound")

\* number of characters match_not takes before rest starts with the pattern
RECURSIVE NotLen(_, _)
NotLen(r, f) ==
    IF r = <<>> \/ StartsWith(r, f) THEN 0 ELSE 1 + NotLen(Tail(r), f)

\* match_not with the test of the forbidden string moved to the end of the
\* loop body: the first character is taken unseen
match_not_late_test(txt, p, name) ==
    LET n == IF txt = <<>> THEN 0 ELSE 1 + NotLen(Tail(txt), p.arg)
    IN  IF n = 0 THEN Raise("NoPatternFound")
        ELSE Ok(Pair(name, Str(SubSeq(txt, 1, n))), Drop(txt, n))

match_not(txt, p, name) ==
    LET n == NotLen(txt, p.arg)
    IN  IF n = 0 THEN Raise("NoPatternFound")
        ELSE Ok(Pair(name, Str(SubSeq(txt, 1, n))), Drop(txt, n))

(* get_pattern_info: a function is called to get the pattern, its __name__ *)
(* is the pattern's name unless it is a lambda.                            *)
get_pattern_info(p) ==
    IF p.type = "function"
    THEN [pattern |-> p.subs[1],
          pattern_name |-> IF Str(p.name) = LambdaName THEN NoName ELSE Str(p.name),
          pattern_type |-> p.subs[1].type]
    ELSE [pattern |-> p, pattern_name |-> NoName, pattern_type |-> p.type]

\* the keys of the matchers table
matchers ==
    {"str", "tuple", "Some", "Words", "Ignore", "OneOf", "Many", "Not",
     "Optional", "Indented"}

\* the leading spaces of a text, counted
IndentLen(txt) == RunLen(txt, {" "})

\* how many leading lines start with the indentation
RECURSIVE IndentedCount(_, _)
IndentedCount(lines, indent) ==
    IF lines # <<>> /\ StartsWith(lines[1], indent)
    THEN 1 + IndentedCount(Tail(lines), indent)
    ELSE 0

\* the state of match_indented just before it parses the block
IndentedSplit(txt) ==
    LET body == Tail(txt)
        indent == SubSeq(body, 1, IndentLen(body))
        lines == Split(body)
        k == IndentedCount(lines, indent)
        indented_lines == [i \in 1..k |-> Drop(lines[i], Len(indent))]
        other_lines == SubSeq(lines, k + 1, Len(lines))
    IN  [indent |-> indent, lines |-> lines, count |-> k,
         indented_text |-> <<"\n">> \o Join(indented_lines),
         other_rest |-> Join(other_lines)]

\* the unwrapping of a match that match_many appends
ManyUnwrap(match) ==
    IF ~Truthy(Item(match, 0)) \/ Item(match, 0) = LambdaName
    THEN IF HasItem(match, 1) THEN Ok(Item(match, 1), <<>>) ELSE Raise("IndexError")
    ELSE Ok(match, <<>>)

\* the statements of match_many after its while loop
ManyReturn(res, rst, name) ==
    IF res = <<>> THEN Raise("NoPatternFound")
    ELSE LET r == IF Len(res) = 1 THEN res[1] ELSE Lst(res)
         IN  IF Truthy(name) THEN Ok(Pair(name, r), rst) ELSE Ok(r, rst)

\* one step of the for loop of match_many on the outcome o of do_parse:
\* the state [kind, rest, result, made] after the step
ManyStep(o, st) ==
    IF o.kind = "NoPatternFound" THEN st
    ELSE IF o.kind # "ok" THEN [st EXCEPT !.kind = o.kind]
    ELSE IF ~Truthy(o.match) THEN [st EXCEPT !.rest = o.rest]
    ELSE LET u == ManyUnwrap(o.match)
         IN  IF u.kind # "ok" THEN [st EXCEPT !.kind = u.kind]
             ELSE [kind |-> "ok", rest |-> o.rest,
                   result |-> Append(st.result, u.match), made |-> TRUE]

\* the statements of match_tuple after its for loop
TupleReturn(res, rst, name) ==
    LET r1 == IF Len(res) = 1 THEN res[1] ELSE Lst(res)
    IN  IF ~HasItem(r1, 0) THEN Raise("IndexError")
        ELSE IF Truthy(Item(r1, 0)) THEN Ok(Pair(name, r1), rst)
        ELSE IF ~HasItem(r1, 1) THEN Raise("IndexError")
        ELSE Ok(Pair(name, Item(r1, 1)), rst)

\* F applied to the value of e.  The value is computed once, where a LET
\* definition would be computed again at each of its uses when TLC
\* evaluates an action's enabling condition.
With(e, F(_)) == CHOOSE r \in {F(v) : v \in {e}} : TRUE

RECURSIVE do_parse(_, _)
RECURSIVE TupleLoop(_, _, _, _)
RECURSIVE OneOfLoop(_, _, _)
RECURSIVE ManyPass(_, _, _)
RECURSIVE ManyLoop(_, _, _)

\* the for loop of match_tuple from sub-pattern i on
TupleLoop(subs, i, rst, res) ==
    IF i > Len(subs) THEN [kind |-> "ok", rest |-> rst, result |-> res]
    ELSE With(do_parse(rst, subs[i]), LAMBDA o :
             IF o.kind # "ok" THEN [kind |-> o.kind, rest |-> rst, result |-> res]
             ELSE TupleLoop(subs, i + 1, o.rest,
                            IF Truthy(o.match) THEN Append(res, o.match) ELSE res))

match_tuple(txt, p, name) ==
    With(TupleLoop(p.subs, 1, txt, <<>>), LAMBDA l :
        IF l.kind # "ok" THEN Raise(l.kind)
        ELSE TupleReturn(l.result, l.rest, name))

match_ignore(txt, p, name) ==
    With(do_parse(txt, p.subs[1]), LAMBDA o :
        IF o.kind = "ok" THEN Ok(Lst(<<>>), o.rest) ELSE o)

\* what match_one_of does with the outcome o of an option that returned
OneOfReturn(o) ==
    IF Item(o.match, 0) = LambdaName
    THEN IF HasItem(o.match, 1) THEN Ok(Item(o.match, 1), o.rest)
         ELSE Raise("IndexError")
    ELSE o

\* the for loop of match_one_of from option i on
OneOfLoop(txt, opts, i) ==
    IF i > Len(opts) THEN Raise("NoPatternFound")
    ELSE With(do_parse(txt, opts[i]), LAMBDA o :
             IF o.kind = "NoPatternFound" THEN OneOfLoop(txt, opts, i + 1)
             ELSE IF o.kind # "ok" THEN o
             ELSE IF Truthy(o.match) THEN OneOfReturn(o)
             ELSE OneOfLoop(txt, opts, i + 1))

match_one_of(txt, p, name) == OneOfLoop(txt, p.subs, 1)

\* the for loop of match_many from option i on, in state st
ManyPass(opts, i, st) ==
    IF i > Len(opts) \/ st.kind # "ok" THEN st
    ELSE With(ManyStep(do_parse(st.rest, opts[i]), st), LAMBDA n :
             ManyPass(opts, i + 1, n))

\* the while loop of match_many.  A pass is a function of rest alone, so a
\* pass that makes a match and leaves a non-empty rest as it was is followed
\* by the same pass for ever: the call never returns.
ManyLoop(opts, rst, res) ==
    IF rst = <<>> THEN [kind |-> "ok", rest |-> rst, result |-> res, made |-> FALSE]
    ELSE With(ManyPass(opts, 1, [kind |-> "ok", rest |-> rst, result |-> res,
                                 made |-> FALSE]), LAMBDA st :
             IF st.kind # "ok" \/ ~st.made THEN st
             ELSE IF st.rest = rst THEN [st EXCEPT !.kind = "hang"]
             ELSE ManyLoop(opts, st.rest, st.result))

match_many(txt, p, name) ==
    With(ManyLoop(p.subs, txt, <<>>), LAMBDA l :
        IF l.kind # "ok" THEN Raise(l.kind)
        ELSE ManyReturn(l.result, l.rest, name))

\* match_optional that lets the failure of its pattern through
match_optional_reraise(txt, p, name) == do_parse(txt, p.subs[1])

match_optional(txt, p, name) ==
    With(do_parse(txt, p.subs[1]), LAMBDA o :
        IF o.kind = "NoPatternFound" THEN Ok(Lst(<<>>), txt) ELSE o)

match_indented(txt, p, name) ==
    IF ~StartsWith(txt, <<"\n">>) THEN Raise("NoPatternFound")
    ELSE IF IndentLen(Tail(txt)) = 0 THEN Raise("NoPatternFound")
    ELSE With(IndentedSplit(txt), LAMBDA s :
         With(do_parse(s.indented_text, p.subs[1]), LAMBDA o :
             IF o.kind # "ok" THEN o
             ELSE Ok(o.match, o.rest \o <<"\n">> \o s.other_rest)))

do_parse(txt, p) ==
    With(get_pattern_info(p), LAMBDA info :
        IF info.pattern_type \notin matchers THEN Raise("UnknownMatcherType")
        ELSE CASE info.pattern_type = "str" ->
                      match_text(txt, info.pattern, info.pattern_name)
               [] info.pattern_type = "tuple" ->
                      match_tuple(txt, info.pattern, info.pattern_name)
               [] info.pattern_type = "Some" ->
                      match_some(txt, info.pattern, info.pattern_name)
               [] info.pattern_type = "Words" ->
                      match_words(txt, info.pattern, info.pattern_name)
               [] info.pattern_type = "Ignore" ->
                      match_ignore(txt, info.pattern, info.pattern_name)
               [] info.pattern_type = "OneOf" ->
                      match_one_of(txt, info.pattern, info.pattern_name)
               [] info.pattern_type = "Many" ->
                      match_many(txt, info.pattern, info.pattern_name)
               [] info.pattern_type = "Not" ->
                      match_not(txt, info.pattern, info.pattern_name)
               [] info.pattern_type = "Optional" ->
                      match_optional(txt, info.pattern, info.pattern_name)
               [] info.pattern_type = "Indented" ->
                      match_indented(txt, info.pattern, info.pattern_name))

\* parse_string returns the match and drops the rest
parse_string(txt, p) == do_parse(txt, p).match

(* ---------------------------- inputs ----------------------------------- *)

\* every text of at most n characters drawn from cs
TextsOver(cs, n) == UNION {[1..k -> cs] : k \in 0..n}

Texts == TextsOver({"a", "b"}, MaxLen)

IndentTexts == TextsOver({"\n", " ", "a"}, MaxIndentLen)

Literals == {Literal(<<>>), Literal(<<"a">>), Literal(<<"b">>), Literal(<<"a", "b">>)}

Nots == {Not(f) : f \in TextsOver({"a", "b"}, 2)}

\* patterns that hold no other pattern
Leaves ==
    Literals \cup {Some(<<"a">>), Words(<<"a", "b">>), Not(<<"b">>), Not(<<>>)}

\* the patterns used as sub-patterns: leaves, leaves that are skipped or
\* optional, a named rule and a lambda
Subs ==
    Leaves
    \cup {Ignore(Literal(<<"a">>)), Ignore(Literal(<<"b">>)),
          Optional(Literal(<<"a">>)), Optional(Literal(<<"b">>)),
          Function(<<"x">>, Literal(<<"a">>)),
          Function(<<"<", "l", "a", "m", "b", "d", "a", ">">>, Literal(<<"b">>))}

Lists1 == {<<p>> : p \in Subs}

Lists2 == {<<p, q>> : p \in Subs, q \in Subs}

\* combinators over the sub-patterns
Combined ==
    {Tuple(<<>>)}
    \cup {Tuple(l) : l \in Lists1 \cup Lists2}
    \cup {OneOf(l) : l \in Lists1 \cup Lists2}
    \cup {Many(l) : l \in Lists1 \cup Lists2}
    \cup {Optional(p) : p \in Subs}
    \cup {Ignore(p) : p \in Subs}

\* combinators nested in a sequence, an alternation, an optional or a rule
Nested ==
    {Tuple(<<q>>) : q \in {Many(l) : l \in Lists1 \cup Lists2}}
    \cup {Tuple(<<q>>) : q \in {OneOf(l) : l \in Lists2}}
    \cup {Tuple(<<q>>) : q \in {Tuple(l) : l \in Lists2}}
    \cup {OneOf(<<Tuple(l), q>>) : l \in Lists2, q \in Literals}
    \cup {Optional(Tuple(l)) : l \in Lists2}
    \cup {Many(<<Tuple(<<p, q>>), r>>) : p \in Literals, q \in Literals, r \in Literals}
    \cup {Function(<<"x">>, q) : q \in {Many(l) : l \in Lists1}}
    \cup {Function(<<"x">>, q) : q \in {Tuple(l) : l \in Lists1}}

Patterns == Leaves \cup Nots \cup Combined \cup Nested

\* the patterns matched against a dedented block
BlockPatterns ==
    {Not(<<"b">>), Literal(<<>>), Literal(<<"\n", "a">>), Some(<<"\n">>),
     Tuple(<<Literal(<<"\n">>), Some(<<"a">>)>>),
     Many(<<Literal(<<"\n">>), Literal(<<"a">>), Some(<<" ">>)>>)}

IndentPatterns == {Indented(p) : p \in BlockPatterns}

(* -------------------------- the program -------------------------------- *)

\* no outcome yet
Pending == Raise("pending")

\* the pattern the dispatch works on, and its name
Resolved == get_pattern_info(pattern)

options == Resolved.pattern.subs

Init ==
    /\ \/ text \in Texts /\ pattern \in Patterns
       \/ text \in IndentTexts /\ pattern \in IndentPatterns
    /\ pc = "start"
    /\ outcome = Pending
    /\ rest = <<>>
    /\ result = <<>>
    /\ idx = 0
    /\ match_made = FALSE

\* parse_string on a pattern that is not a Many: one call of do_parse,
\* which returns, raises, or never returns
Parse ==
    /\ pc = "start"
    /\ Resolved.pattern_type # "Many"
    /\ \E o \in {do_parse(text, pattern)} :
           /\ pc' = IF o.kind = "hang" THEN "hung" ELSE "done"
           /\ outcome' = IF o.kind = "hang" THEN outcome ELSE o
    /\ UNCHANGED <<text, pattern, rest, result, idx, match_made>>

\* match_many: result = [], rest = text
ManyEnter ==
    /\ pc = "start"
    /\ Resolved.pattern_type = "Many"
    /\ rest' = text
    /\ result' = <<>>
    /\ pc' = "many_while"
    /\ UNCHANGED <<text, pattern, outcome, idx, match_made>>

\* match_many: while rest: match_made = False
ManyWhile ==
    /\ pc = "many_while"
    /\ IF rest # <<>>
       THEN pc' = "many_for" /\ idx' = 1 /\ match_made' = FALSE
       ELSE pc' = "many_return" /\ UNCHANGED <<idx, match_made>>
    /\ UNCHANGED <<text, pattern, outcome, rest, result>>

\* match_many: the body of the for loop on option idx
ManyFor ==
    /\ pc = "many_for"
    /\ idx <= Len(options)
    /\ \E st \in {ManyStep(do_parse(rest, options[idx]),
                           [kind |-> "ok", rest |-> rest, result |-> result,
                            made |-> match_made])} :
           /\ rest' = st.rest
           /\ result' = SubSeq(st.result, 1, Min(Len(st.result), MaxResult))
           /\ match_made' = st.made
           /\ idx' = IF st.kind = "ok" THEN idx + 1 ELSE idx
           /\ pc' = IF st.kind = "ok" THEN "many_for"
                    ELSE IF st.kind = "hang" THEN "hung" ELSE "done"
           /\ outcome' = IF st.kind \in {"ok", "hang"} THEN outcome ELSE Raise(st.kind)
    /\ UNCHANGED <<text, pattern>>

\* match_many: the for loop is over, if not match_made: break
ManyForEnd ==
    /\ pc = "many_for"
    /\ idx > Len(options)
    /\ pc' = IF match_made THEN "many_while" ELSE "many_return"
    /\ UNCHANGED <<text, pattern, outcome, rest, result, idx, match_made>>

\* match_many: the statements after the while loop
ManyDone ==
    /\ pc = "many_return"
    /\ outcome' = ManyReturn(result, rest, Resolved.pattern_name)
    /\ pc' = "done"
    /\ UNCHANGED <<text, pattern, rest, result, idx, match_made>>

Next == Parse \/ ManyEnter \/ ManyWhile \/ ManyFor \/ ManyForEnd \/ ManyDone

Spec == Init /\ [][Next]_vars

\* the repetitions, and a sequence and a literal, on the shortest texts
LoopPatterns ==
    {Many(l) : l \in {<<p>> : p \in {Literal(<<>>), Literal(<<"a">>), Some(<<"b">>)}}}
    \cup {Many(<<p, q>>) : p \in {Literal(<<>>), Literal(<<"a">>), Some(<<"b">>)},
                           q \in {Literal(<<>>), Literal(<<"a">>), Some(<<"b">>)}}
    \cup {Tuple(<<Many(<<Literal(<<>>)>>)>>), Tuple(<<Many(<<Literal(<<"a">>)>>)>>),
          Literal(<<"a">>)}

LoopInit ==
    /\ text \in TextsOver({"a", "b"}, MaxLoopLen)
    /\ pattern \in LoopPatterns
    /\ pc = "start"
    /\ outcome = Pending
    /\ rest = <<>>
    /\ result = <<>>
    /\ idx = 0
    /\ match_made = FALSE

\* the interpreter runs the program as long as it has a next statement
FairSpec == LoopInit /\ [][Next]_vars /\ WF_vars(Next)

(* ------------------------- sanity of the model ------------------------- *)

\* the stepped loop and the recursive definition of match_many agree
SteppedAgrees == pc = "done" => outcome = do_parse(text, pattern)

\* the list of the stepped loop is cut short only in a run that never returns
CapOnlyWhenHung ==
    Len(result) >= MaxResult => do_parse(text, pattern).kind = "hang"

TypeOK ==
    /\ pc \in {"start", "many_while", "many_for", "many_return", "done", "hung"}
    /\ outcome.kind \in {"pending", "ok", "NoPatternFound", "IndexError", "UnknownMatcherType"}
    /\ (pc = "done") = (outcome.kind # "pending")
    /\ match_made \in BOOLEAN

(* ------------------------------ claims --------------------------------- *)

\* the outcome of option j of the pattern against a text
OptionOn(txt, j) == do_parse(txt, options[j])

\* every option returns or raises NoPatternFound against the input text
OptionsDecide == \A j \in 1..Len(options) : OptionOn(text, j).kind \in {"ok", "NoPatternFound"}

\* the first option that succeeds against the input text, 0 if none does
FirstSuccess ==
    IF \E j \in 1..Len(options) : OptionOn(text, j).kind = "ok"
    THEN CHOOSE j \in 1..Len(options) :
             /\ OptionOn(text, j).kind = "ok"
             /\ \A i \in 1..(j - 1) : OptionOn(text, i).kind # "ok"
    ELSE 0

\* C1: a OneOf returns the match and the rest of the first option, in list
\* order, that succeeds against the text, whatever value that option
\* produced, and raises NoPatternFound only if every option fails.
OrderedChoice ==
    (pc = "done" /\ Resolved.pattern_type = "OneOf" /\ OptionsDecide) =>
        IF FirstSuccess = 0 THEN outcome.kind = "NoPatternFound"
        ELSE /\ outcome.kind = "ok"
             /\ outcome.rest = OptionOn(text, FirstSuccess).rest
             /\ outcome.match = OptionOn(text, FirstSuccess).match

\* a pattern that holds no other pattern and takes at least one character
\* whenever it succeeds
Consuming(p) ==
    p.type \in {"Some", "Words", "Not"} \/ (p.type = "str" /\ p.arg # <<>>)

\* C2: every repetition a Many accepts at a position is produced by the
\* earliest option, in list order, that succeeds at that position: the scan
\* restarts from the first option after every accepted repetition.  Stated
\* for options that take text whenever they succeed.
RestartsFromFirst ==
    [][(/\ pc = "many_for"
        /\ \A j \in 1..Len(options) : Consuming(options[j])
        /\ Len(result') > Len(result)) =>
           \A j \in 1..(idx - 1) : OptionOn(rest, j).kind # "ok"]_vars

\* the scan of the options from idx on ends the repetition: it accepts
\* nothing, and the loop returns a match
FinalScan ==
    /\ pc = "many_for"
    /\ result # <<>>
    /\ LET st == ManyPass(options, idx,
                     [kind |-> "ok", rest |-> rest, result |-> result,
                      made |-> match_made])
       IN  st.kind = "ok" /\ ~st.made

\* C3: a Many that returns with a non-empty rest leaves a rest against which
\* every option fails, and the scan that ends the repetition consumes no
\* text.
StopsWhereNoneSucceed ==
    [][/\ FinalScan => rest' = rest
       /\ (pc = "many_return" /\ outcome'.kind = "ok" /\ outcome'.rest # <<>>) =>
              \A j \in 1..Len(options) : OptionOn(outcome'.rest, j).kind # "ok"]_vars

\* a label/value pair whose label is absent: [name, value] with name ""
AbsentPair(e) == e.t = "list" /\ Len(e.v) = 2 /\ e.v[1] = NoName

\* no list at any level of a value holds a pair whose label is absent
RECURSIVE Unwrapped(_)
Unwrapped(x) ==
    x.t = "list" => \A i \in 1..Len(x.v) : ~AbsentPair(x.v[i]) /\ Unwrapped(x.v[i])

\* C4: no list at any level of a returned match holds a label/value pair
\* whose label is absent: every anonymous sub-match is inserted bare.
NoAbsentLabelInLists ==
    (pc = "done" /\ outcome.kind = "ok") => Unwrapped(outcome.match)

\* a pattern holds a function, at any depth
RECURSIVE HasRule(_)
HasRule(p) == p.type = "function" \/ \E i \in 1..Len(p.subs) : HasRule(p.subs[i])

\* the Python types of the anonymous sub-patterns C5 is about
CollapseTypes == {"str", "Some", "Words", "Not", "OneOf", "Many", "tuple"}

\* C5: an anonymous tuple of exactly one anonymous sub-pattern that matches
\* returns the very match and rest of that sub-pattern matched alone.
SingletonCollapse ==
    (/\ pc = "done"
     /\ pattern.type = "tuple"
     /\ Len(pattern.subs) = 1
     /\ pattern.subs[1].type \in CollapseTypes
     /\ ~HasRule(pattern)
     /\ do_parse(text, pattern.subs[1]).kind = "ok")
        => outcome = do_parse(text, pattern.subs[1])

\* the sub-patterns from i on matched in turn against the successive rests:
\* the rest the last one leaves, or the first failure
RECURSIVE Thread(_, _, _)
Thread(subs, i, rst) ==
    IF i > Len(subs) THEN Ok(Lst(<<>>), rst)
    ELSE LET o == do_parse(rst, subs[i])
         IN  IF o.kind = "ok" THEN Thread(subs, i + 1, o.rest) ELSE Raise(o.kind)

\* C6: a tuple succeeds exactly when its sub-patterns succeed in turn, with
\* the rest the last one leaves, and otherwise raises NoPatternFound and
\* nothing else, also when every sub-match is empty or the tuple is empty.
SequenceOnlyNoMatch ==
    (pc = "done" /\ Resolved.pattern_type = "tuple") =>
        LET th == Thread(Resolved.pattern.subs, 1, text)
        IN  /\ outcome.kind \in {"ok", "NoPatternFound"}
            /\ (outcome.kind = "ok") = (th.kind = "ok")
            /\ outcome.kind = "ok" => outcome.rest = th.rest

\* the part of a text that follows the last line of its indented block
AfterBlock(txt) ==
    LET s == IndentedSplit(txt)
    IN  Drop(txt, 1 + Len(Join(SubSeq(s.lines, 1, s.count))))

\* the pattern inside an Indented consumes the whole dedented block
BlockConsumed ==
    do_parse(IndentedSplit(text).indented_text, Resolved.pattern.subs[1]).rest = <<>>

\* C7: when Indented succeeds and its pattern consumes the whole block, the
\* rest is exactly what follows the block in the original text, and it is
\* empty when the block runs to the end of the text.
DedentRoundTrip ==
    (/\ pc = "done"
     /\ Resolved.pattern_type = "Indented"
     /\ outcome.kind = "ok"
     /\ BlockConsumed)
        => outcome.rest = AfterBlock(text)

\* C8: Not(f) succeeds on t iff t is non-empty and does not start with f;
\* it then returns c and r with c + r = t, c not empty, r empty or starting
\* with f, and no suffix of t that begins inside c starting with f;
\* otherwise it raises NoPatternFound.
NotBoundary ==
    (pc = "done" /\ Resolved.pattern_type = "Not") =>
        LET f == Resolved.pattern.arg
            r == outcome.rest
            c == SubSeq(text, 1, Len(text) - Len(r))
        IN  /\ outcome.kind \in {"ok", "NoPatternFound"}
            /\ (outcome.kind = "ok") = (text # <<>> /\ ~StartsWith(text, f))
            /\ outcome.kind = "ok" =>
                   /\ outcome.match = Pair(Resolved.pattern_name, Str(c))
                   /\ Len(r) <= Len(text)
                   /\ c \o r = text
                   /\ Len(c) >= 1
                   /\ (r = <<>> \/ StartsWith(r, f))
                   /\ \A i \in 1..Len(c) : ~StartsWith(Drop(text, i - 1), f)

\* a Not that stops at the forbidden string after more than one character
NotStopsAtForbidden ==
    /\ pc = "done"
    /\ Resolved.pattern_type = "Not"
    /\ outcome.kind = "ok"
    /\ outcome.rest # <<>>
    /\ Len(outcome.rest) + 2 <= Len(text)

\* an Optional never raises NoPatternFound, and returns the empty match and
\* its input text when its pattern fails
OptionalRestores ==
    (pc = "done" /\ Resolved.pattern_type = "Optional") =>
        /\ outcome.kind # "NoPatternFound"
        /\ do_parse(text, Resolved.pattern.subs[1]).kind = "NoPatternFound" =>
               outcome = Ok(Lst(<<>>), text)

\* a OneOf whose earlier options fail returns what the first option with a
\* non-empty match returns against the input text itself
OneOfRestores ==
    (pc = "done" /\ Resolved.pattern_type = "OneOf") =>
        \A j \in 1..Len(options) :
            (/\ \A i \in 1..(j - 1) : OptionOn(text, i).kind = "NoPatternFound"
             /\ OptionOn(text, j).kind = "ok"
             /\ Truthy(OptionOn(text, j).match))
                => outcome = OptionOn(text, j)

\* a failed attempt of the Many loop leaves rest and result as they were
\* and the next option is tried
ManyRestores ==
    (pc = "many_for" /\ idx <= Len(options)
        /\ OptionOn(rest, idx).kind = "NoPatternFound") =>
        rest' = rest /\ result' = result /\ pc' = "many_for" /\ idx' = idx + 1

\* C9: after an attempt of a OneOf, a Many or an Optional fails, the next
\* step uses the text at which the attempt began and the result holds
\* nothing of the attempt; an Optional never raises NoPatternFound and
\* returns the empty match and its input text when its pattern fails.
BacktrackRestores == [](OptionalRestores /\ OneOfRestores) /\ [][ManyRestores]_vars

\* a OneOf whose first option, a tuple, matched its first sub-pattern and
\* then failed, and whose second option succeeded
BacktrackedAfterPartialMatch ==
    /\ pc = "done"
    /\ Resolved.pattern_type = "OneOf"
    /\ Len(options) = 2
    /\ options[1].type = "tuple"
    /\ Len(options[1].subs) = 2
    /\ do_parse(text, options[1].subs[1]).kind = "ok"
    /\ do_parse(text, options[1].subs[1]).rest # text
    /\ OptionOn(text, 1).kind = "NoPatternFound"
    /\ outcome.kind = "ok"
    /\ outcome.rest # text

\* C10: parse_string on a pattern without rule references eventually
\* returns or raises.
Termination == ~HasRule(pattern) => <>(pc = "done")

====
